---- MODULE Spec2Model ----
(***************************************************************************)
(* Model of the colorado_trail_recommender pipeline (src/src/cleaning.py): *)
(* table cleaning, review-corpus assembly, topic-loading table, feature    *)
(* fusion and the two similarity-based recommendation queries.             *)
(*                                                                         *)
(* A data frame is a sequence of rows; a row is a record whose field idx   *)
(* is the row's index label and whose other fields are its columns.  Text  *)
(* is a sequence of one-character strings, names and index keys are        *)
(* strings.  Similarities are kept exactly, as the pair <<s, q>> that      *)
(* stands for sign(s) * sqrt(|s| / q); floating-point rounding of the      *)
(* cosine is not modelled.  Topic loadings are fixed-point thousandths.    *)
(***************************************************************************)
EXTENDS Integers, Sequences, FiniteSets, TLC

VARIABLES
    pc,             \* position in the main block / last operation run
    df_mongo,       \* raw table (main block, line 224)
    df_clean,       \* result of clean_df (line 225)
    hike_url_dict,  \* index label -> url (line 226)
    rows,           \* first result of get_review_corpus (line 227)
    docs,           \* second result of get_review_corpus (line 227)
    df_reviews,     \* line 228
    df_corpus,      \* line 229
    df_hike,        \* line 230
    W,              \* document-topic matrix returned by get_nmf (line 124)
    W_df,           \* document-topic table (line 132)
    df_merged,      \* fused feature table (lines 240-244)
    X,              \* scaled feature matrix (line 246)
    hikes,          \* df_merged.index (line 250)
    similarity_df,  \* cosine similarity matrix (line 246)
    order,          \* np.argsort(...)[::-1] of the last query
    recs,           \* what the last query printed: <<name, url>> pairs
    outcome,        \* "ok" or the exception the last operation raised
    query           \* arguments of the last query

vars == <<pc, df_mongo, df_clean, hike_url_dict, rows, docs, df_reviews,
          df_corpus, df_hike, W, W_df, df_merged, X, hikes, similarity_df,
          order, recs, outcome, query>>

pipelineVars == <<df_mongo, df_clean, rows, docs, df_reviews, df_corpus>>
fusionVars == <<df_hike, W, W_df, df_merged>>
engineVars == <<X, hikes, similarity_df>>
queryVars == <<order, recs, query>>

(***************************************************************************)
(* Bounds                                                                  *)
(***************************************************************************)
MaxRecords == 5         \* rows of the raw table given to clean_df
MaxCorpusRecords == 3   \* rows of the raw table the corpus is built from
MaxFusionRows == 2      \* rows of each table joined in feature fusion
NTrails == 3            \* rows of the scaled feature matrix
MaxItems == 2           \* length of the liked list of a profile query
MaxN == 2               \* largest number of recommendations asked for

Min(a, b) == IF a < b THEN a ELSE b
Range(s) == {s[i] : i \in 1..Len(s)}
SeqsUpTo(S, n) == UNION {[1..k -> S] : k \in 1..n}

(***************************************************************************)
(* Text helpers: str.strip and str.replace on one-character sequences      *)
(***************************************************************************)
Whitespace == {" ", "\n", "\r", "\t"}

RECURSIVE LStrip(_)
LStrip(t) ==
    IF t # <<>> /\ Head(t) \in Whitespace THEN LStrip(Tail(t)) ELSE t

RECURSIVE RStrip(_)
RStrip(t) ==
    IF t # <<>> /\ t[Len(t)] \in Whitespace
    THEN RStrip(SubSeq(t, 1, Len(t) - 1))
    ELSE t

Strip(t) == RStrip(LStrip(t))

Replace(t, old, new) == [i \in 1..Len(t) |-> IF t[i] = old THEN new ELSE t[i]]

(***************************************************************************)
(* clean_df                                                                *)
(***************************************************************************)
\* DataFrame.drop('_id', axis=1)
DropId(df) ==
    [i \in 1..Len(df) |->
        [f \in (DOMAIN df[i]) \ {"_id"} |-> df[i][f]]]

\* DataFrame.drop_duplicates(subset='url'): the first row of each url is kept
RECURSIVE drop_duplicates(_)
drop_duplicates(df) ==
    IF df = <<>> THEN <<>>
    ELSE LET init == SubSeq(df, 1, Len(df) - 1)
             last == df[Len(df)]
         IN  IF \E j \in 1..Len(init) : init[j].url = last.url
             THEN drop_duplicates(init)
             ELSE Append(drop_duplicates(init), last)

\* DataFrame.set_index('name'): the name column becomes the index label
set_index(df) ==
    [i \in 1..Len(df) |->
        [f \in (DOMAIN df[i]) \ {"name"} |->
            IF f = "idx" THEN df[i].name ELSE df[i][f]]]

\* Index.duplicated(): every occurrence of a label after its first
duplicated(df, i) == \E j \in 1..(i - 1) : df[j].idx = df[i].idx

\* index.where(~index.duplicated(), index + suffix)
SuffixStep(df, suffix) ==
    [i \in 1..Len(df) |->
        IF duplicated(df, i)
        THEN [df[i] EXCEPT !.idx = df[i].idx \o suffix]
        ELSE df[i]]

clean_df(raw_df) ==
    SuffixStep(SuffixStep(SuffixStep(
        set_index(drop_duplicates(DropId(raw_df))), "_2"), "_3"), "_4")

(***************************************************************************)
(* get_review_corpus, make_reviews_df, make_corpus_df, make_hike_df        *)
(***************************************************************************)
\* one review value v of the container: the text added for it, or the
\* exception raised by v[2]
ReviewText(v) ==
    Replace(Replace(Strip(v.elems[3]), "\n", " "), "\r", " ") \o <<" ">>

\* the inner loop over data[i].items(); "IndexError" when a list value has
\* no element 2
RECURSIVE ReviewDocument(_)
ReviewDocument(items) ==
    IF items = <<>> THEN [raised |-> "ok", text |-> <<>>]
    ELSE LET init == ReviewDocument(SubSeq(items, 1, Len(items) - 1))
             v == items[Len(items)]
         IN  IF init.raised # "ok" THEN init
             ELSE IF ~v.list THEN init
             ELSE IF Len(v.elems) < 3
                  THEN [raised |-> "IndexError", text |-> <<>>]
             ELSE [raised |-> "ok", text |-> init.text \o ReviewText(v)]

\* data is the reviews column: a sequence of [idx, reviews]
RECURSIVE get_review_corpus(_)
get_review_corpus(data) ==
    IF data = <<>> THEN [raised |-> "ok", rows |-> <<>>, docs |-> <<>>]
    ELSE LET init == get_review_corpus(SubSeq(data, 1, Len(data) - 1))
             cell == data[Len(data)]
         IN  IF init.raised # "ok" THEN init
             ELSE IF cell.reviews.kind = "None"
                  THEN [init EXCEPT !.rows = Append(@, cell.idx),
                                    !.docs = Append(@, <<>>)]
             ELSE IF cell.reviews.kind = "NaN"
                  \* a float has no .items()
                  THEN [init EXCEPT !.raised = "AttributeError"]
             ELSE LET d == ReviewDocument(cell.reviews.items)
                  IN  IF d.raised # "ok"
                      THEN [init EXCEPT !.raised = d.raised]
                      ELSE [init EXCEPT !.rows = Append(@, cell.idx),
                                        !.docs = Append(@, d.text)]

ReviewsColumn(df) ==
    [i \in 1..Len(df) |-> [idx |-> df[i].idx, reviews |-> df[i].reviews]]

make_reviews_df(index, documents) ==
    [i \in 1..Len(documents) |-> [idx |-> index[i], reviews |-> documents[i]]]

\* fillna(''): a missing cell (written <<"NaN">>, which is no text) becomes
\* the empty text
NaNText == <<"NaN">>
FillNa(t) == IF t = NaNText THEN <<>> ELSE t

\* column assignment aligns on the index label; a label absent from the
\* assigned series gives NaN (the first matching label is used)
Lookup(review_df, label) ==
    IF \E j \in 1..Len(review_df) : review_df[j].idx = label
    THEN review_df[CHOOSE j \in 1..Len(review_df) :
                      /\ review_df[j].idx = label
                      /\ \A k \in 1..(j - 1) : review_df[k].idx # label].reviews
    ELSE NaNText

make_corpus_df(raw_df, review_df) ==
    [i \in 1..Len(raw_df) |->
        LET r == raw_df[i]
            tags == FillNa(r.tags)
            main == FillNa(r.main_description)
            sec == FillNa(r.secondary_description)
            rev == FillNa(Lookup(review_df, r.idx))
        IN  [idx |-> r.idx, url |-> r.url, tags |-> tags,
             main_description |-> main, secondary_description |-> sec,
             review_string |-> rev,
             all |-> tags \o <<" ">> \o main \o <<" ">> \o sec \o <<" ">> \o rev]]

make_hike_df(raw_df) ==
    [i \in 1..Len(raw_df) |->
        [f \in (DOMAIN raw_df[i]) \
               {"tags", "main_description", "secondary_description", "reviews"}
            |-> raw_df[i][f]]]

make_url_dict(raw_df) ==
    [label \in {raw_df[i].idx : i \in 1..Len(raw_df)} |->
        raw_df[CHOOSE i \in 1..Len(raw_df) :
                  /\ raw_df[i].idx = label
                  /\ \A k \in (i + 1)..Len(raw_df) : raw_df[k].idx # label].url]

(***************************************************************************)
(* nmf_topic_modeling                                                      *)
(***************************************************************************)
NTopics == 2            \* n_topics of the call; the main block passes 8

\* ndarray.round(2) on thousandths: to the nearest hundredth, halves to even
Round2(w) ==
    LET q == w \div 10
        r == w % 10
    IN  IF r < 5 THEN 10 * q
        ELSE IF r > 5 THEN 10 * (q + 1)
        ELSE IF q % 2 = 0 THEN 10 * q ELSE 10 * (q + 1)

\* document_topics: the 0-based column of the largest loading of each row
document_topics(w) ==
    [i \in 1..Len(w) |->
        (CHOOSE k \in 1..Len(w[i]) :
            /\ \A j \in 1..Len(w[i]) : w[i][j] <= w[i][k]
            /\ \A j \in 1..(k - 1) : w[i][j] < w[i][k]) - 1]

\* the W_df of nmf_topic_modeling(corpus, ...), w being what get_nmf returned
nmf_topic_modeling(corpus, w) ==
    [i \in 1..Len(w) |->
        [idx |-> corpus[i].idx,
         topics |-> [k \in 1..Len(w[i]) |-> Round2(w[i][k])],
         majority_topic |-> document_topics(w)[i] + 1]]

(***************************************************************************)
(* Feature fusion (main block, lines 240-244)                              *)
(***************************************************************************)
\* rows of right whose index label is that of left[i], in order
RECURSIVE Matches(_, _)
Matches(l, right) ==
    IF right = <<>> THEN <<>>
    ELSE IF Head(right).idx = l.idx
         THEN <<[f \in (DOMAIN l) \cup {"topics", "majority_topic"} |->
                    IF f \in DOMAIN l THEN l[f] ELSE Head(right)[f]]>>
              \o Matches(l, Tail(right))
         ELSE Matches(l, Tail(right))

\* left.merge(right, left_index=True, right_index=True): inner join on the
\* index label, one row per pair of rows that carry the same label
RECURSIVE merge(_, _)
merge(left, right) ==
    IF left = <<>> THEN <<>>
    ELSE Matches(Head(left), right) \o merge(Tail(left), right)

DroppedColumns == {"url", "majority_topic", "location", "number_ratings"}

drop(df, cols) ==
    [i \in 1..Len(df) |-> [f \in (DOMAIN df[i]) \ cols |-> df[i][f]]]

Fusion(left, right) == drop(merge(left, right), DroppedColumns)

\* the names the fusion step reports as dropped by the join: it reports none
reported_drops == {}

\* categories in sorted order, as pd.get_dummies orders them
DifficultyCats == <<"easy", "hard", "moderate">>
HikeTypeCats == <<"Loop", "Out & Back", "Point to Point">>

\* the categories of a column that get an indicator: those present, in
\* sorted order, without the first (drop_first=True)
KeptCats(df, col, cats) ==
    LET present == {k \in 1..Len(cats) : \E i \in 1..Len(df) : df[i][col] = cats[k]}
    IN  {cats[k] : k \in {k \in present : \E j \in present : j < k}}

\* name of the indicator column after the rename of line 244
DummyName(col, cat) ==
    IF col = "hike_type" /\ cat = "Out & Back" THEN "out_and_back"
    ELSE IF col = "hike_type" /\ cat = "Point to Point" THEN "point_to_point"
    ELSE col \o "_" \o cat

get_dummies(df) ==
    LET dk == KeptCats(df, "difficulty", DifficultyCats)
        hk == KeptCats(df, "hike_type", HikeTypeCats)
        dcols == {DummyName("difficulty", c) : c \in dk}
        hcols == {DummyName("hike_type", c) : c \in hk}
    IN  [i \in 1..Len(df) |->
            [f \in ((DOMAIN df[i]) \ {"difficulty", "hike_type"}) \cup dcols \cup hcols |->
                IF f \in dcols
                THEN IF f = DummyName("difficulty", df[i].difficulty) THEN 1 ELSE 0
                ELSE IF f \in hcols
                THEN IF f = DummyName("hike_type", df[i].hike_type) THEN 1 ELSE 0
                ELSE df[i][f]]]

(***************************************************************************)
(* Similarity engine                                                       *)
(***************************************************************************)
RECURSIVE SumTo(_, _)
SumTo(f, n) == IF n = 0 THEN 0 ELSE f[n] + SumTo(f, n - 1)

Dot(u, v) == SumTo([c \in 1..Len(u) |-> u[c] * v[c]], Len(u))

Sgn(d) == IF d > 0 THEN 1 ELSE IF d < 0 THEN -1 ELSE 0

\* sklearn cosine_similarity of two vectors: the dot product of the two
\* normalised vectors, a zero vector being left as it is.  The value is
\* sign(s) * sqrt(|s| / q) for the pair <<s, q>> returned.
cosine_similarity(u, v) ==
    LET d == Dot(u, v)
        q == Dot(u, u) * Dot(v, v)
    IN  <<Sgn(d) * d * d, IF q = 0 THEN 1 ELSE q>>

SimLess(a, b) == a[1] * b[2] < b[1] * a[2]
SimEq(a, b) == a[1] * b[2] = b[1] * a[2]

\* make_sim_matrix: the similarity table of the scaled matrix
make_sim_matrix(x) ==
    [i \in 1..Len(x) |-> [j \in 1..Len(x) |-> cosine_similarity(x[i], x[j])]]

\* np.argsort (default kind, not stable): every ordering of the positions
\* that is ascending in the values; equal values may come in any order
argsort(s) ==
    {p \in [1..Len(s) -> 1..Len(s)] :
        /\ \A i, j \in 1..Len(s) : i # j => p[i] # p[j]
        /\ \A i \in 1..(Len(s) - 1) : ~SimLess(s[p[i + 1]], s[p[i]])}

\* a[::-1]
Reversed(a) == [i \in 1..Len(a) |-> a[Len(a) + 1 - i]]

\* a[lo:hi] with 0 <= lo <= hi
Slice(a, lo, hi) == SubSeq(a, lo + 1, Min(hi, Len(a)))

\* position of the first row whose label is name; 0 when there is none
PositionOf(index, name) ==
    IF name \in Range(index)
    THEN CHOOSE i \in 1..Len(index) :
            /\ index[i] = name
            /\ \A k \in 1..(i - 1) : index[k] # name
    ELSE 0

\* the lines printed for the positions idx
Printed(index, urls, idx) ==
    [k \in 1..Len(idx) |-> <<index[idx[k]], urls[index[idx[k]]]>>]

\* [::-1][1:n_hikes+1]
SeedSlice(ranking, n_hikes) == Slice(ranking, 1, n_hikes + 1)

\* get_user_profile with a liked trail counted once however often it is listed
RECURSIVE get_user_profile_once(_, _, _)
get_user_profile_once(x, index, items) ==
    IF items = <<>>
    THEN [raised |-> "ok", user_profile |-> [c \in 1..Len(x[1]) |-> 0]]
    ELSE LET init == get_user_profile_once(x, index, SubSeq(items, 1, Len(items) - 1))
             at == PositionOf(index, items[Len(items)])
         IN  IF init.raised # "ok" THEN init
             ELSE IF at = 0 THEN [init EXCEPT !.raised = "IndexError"]
             ELSE IF \E k \in 1..(Len(items) - 1) : items[k] = items[Len(items)]
                  THEN init
             ELSE [init EXCEPT !.user_profile =
                      [c \in 1..Len(x[1]) |-> @[c] + x[at][c]]]

\* the loop of _get_user_profile; "IndexError" at the first name that
\* np.where finds nowhere in hikes
RECURSIVE get_user_profile(_, _, _)
get_user_profile(x, index, items) ==
    IF items = <<>>
    THEN [raised |-> "ok", user_profile |-> [c \in 1..Len(x[1]) |-> 0]]
    ELSE LET init == get_user_profile(x, index, SubSeq(items, 1, Len(items) - 1))
             at == PositionOf(index, items[Len(items)])
         IN  IF init.raised # "ok" THEN init
             ELSE IF at = 0 THEN [init EXCEPT !.raised = "IndexError"]
             ELSE [init EXCEPT !.user_profile =
                      [c \in 1..Len(x[1]) |-> @[c] + x[at][c]]]

\* cosine_similarity(X, user_prof.reshape(1, -1))[:, 0]
user_similarity(x, user_prof) ==
    [i \in 1..Len(x) |-> cosine_similarity(x[i], user_prof)]

\* UserSlice skipping one entry fewer than there are liked items
UserSlice_skip_one_less(ranking, items, n) ==
    Slice(ranking, Len(items) - 1, n + Len(items) - 1)

\* [::-1][len(items):n+len(items)]
UserSlice(ranking, items, n) == Slice(ranking, Len(items), n + Len(items))

(***************************************************************************)
(* Inputs                                                                  *)
(***************************************************************************)
Names == {"a", "b"}
Tags == <<"t">>
MainDescription == <<"m">>

\* values of the reviews cell: None, NaN (the record has no reviews field),
\* or a container whose values are review lists or other fields
None == [kind |-> "None"]
NaN == [kind |-> "NaN"]
ReviewList(body) == [list |-> TRUE, elems |-> <<<<"u">>, <<"d">>, body>>]
ShortList == [list |-> TRUE, elems |-> <<<<"u">>>>]
Scalar == [list |-> FALSE]
Container(items) == [kind |-> "dict", items |-> items]
ReviewCells ==
    {None, NaN,
     Container(<<Scalar, ReviewList(<<" ", "x", "\n", "y", "\n">>)>>),
     Container(<<ReviewList(<<"x">>), ShortList>>)}

\* mongo_to_dataframe: one row per record, RangeIndex labels 0..n-1; a field
\* a record lacks is NaN
mongo_to_dataframe(records) ==
    [i \in 1..Len(records) |->
        [idx |-> i - 1, _id |-> i, name |-> records[i].name,
         url |-> records[i].url, tags |-> Tags,
         main_description |-> MainDescription,
         secondary_description |-> NaNText,
         reviews |-> records[i].reviews]]

(***************************************************************************)
(* The main block up to the hike table (lines 224-230)                     *)
(***************************************************************************)
InitPipeline(records) ==
    /\ pc = "start"
    /\ df_mongo = mongo_to_dataframe(records)
    /\ df_clean = <<>> /\ hike_url_dict = <<>>
    /\ rows = <<>> /\ docs = <<>> /\ df_reviews = <<>> /\ df_corpus = <<>>
    /\ df_hike = <<>> /\ W = <<>> /\ W_df = <<>> /\ df_merged = <<>>
    /\ X = <<>> /\ hikes = <<>> /\ similarity_df = <<>>
    /\ order = <<>> /\ recs = <<>> /\ query = [op |-> "none"]
    /\ outcome = "ok"

\* tables of up to MaxRecords records, none with reviews
InitClean ==
    \E records \in SeqsUpTo([name : Names, url : 1..MaxRecords, reviews : {None}],
                            MaxRecords) :
        InitPipeline(records)

\* tables of up to MaxCorpusRecords records with every kind of reviews cell
InitCorpus ==
    \E records \in SeqsUpTo([name : Names, url : 1..(MaxCorpusRecords - 1),
                             reviews : ReviewCells], MaxCorpusRecords) :
        InitPipeline(records)

\* line 225: clean_df drops _id from the caller's table in place and returns
\* a new table; the caller's table keeps its rows and its labels
CleanDf ==
    /\ pc = "start"
    /\ df_clean' = clean_df(df_mongo)
    /\ df_mongo' = DropId(df_mongo)
    /\ pc' = "cleaned"
    /\ UNCHANGED <<hike_url_dict, rows, docs, df_reviews, df_corpus, outcome>>
    /\ UNCHANGED <<fusionVars, engineVars, queryVars>>

\* line 226
HikeUrlDict ==
    /\ pc = "cleaned"
    /\ hike_url_dict' = make_url_dict(df_mongo)
    /\ pc' = "urls"
    /\ UNCHANGED <<pipelineVars, fusionVars, engineVars, queryVars, outcome>>

\* line 227
GetReviewCorpus ==
    /\ pc = "urls"
    /\ LET r == get_review_corpus(ReviewsColumn(df_mongo))
       IN  IF r.raised = "ok"
           THEN /\ rows' = r.rows
                /\ docs' = r.docs
                /\ pc' = "reviews"
                /\ UNCHANGED outcome
           ELSE /\ outcome' = r.raised
                /\ pc' = "raised"
                /\ UNCHANGED <<rows, docs>>
    /\ UNCHANGED <<df_mongo, df_clean, df_reviews, df_corpus, hike_url_dict>>
    /\ UNCHANGED <<fusionVars, engineVars, queryVars>>

\* line 228
MakeReviewsDf ==
    /\ pc = "reviews"
    /\ df_reviews' = make_reviews_df(rows, docs)
    /\ pc' = "reviews_df"
    /\ UNCHANGED <<df_mongo, df_clean, rows, docs, df_corpus, hike_url_dict, outcome>>
    /\ UNCHANGED <<fusionVars, engineVars, queryVars>>

\* line 229
MakeCorpusDf ==
    /\ pc = "reviews_df"
    /\ df_corpus' = make_corpus_df(df_mongo, df_reviews)
    /\ pc' = "corpus"
    /\ UNCHANGED <<df_mongo, df_clean, rows, docs, df_reviews, hike_url_dict, outcome>>
    /\ UNCHANGED <<fusionVars, engineVars, queryVars>>

\* line 230
MakeHikeDf ==
    /\ pc = "corpus"
    /\ df_hike' = make_hike_df(df_mongo)
    /\ pc' = "hike"
    /\ UNCHANGED <<pipelineVars, hike_url_dict, outcome, W, W_df, df_merged>>
    /\ UNCHANGED <<engineVars, queryVars>>

NextPipeline ==
    \/ CleanDf
    \/ HikeUrlDict
    \/ GetReviewCorpus
    \/ MakeReviewsDf
    \/ MakeCorpusDf
    \/ MakeHikeDf

SpecClean == InitClean /\ [][NextPipeline]_vars
SpecCorpus == InitCorpus /\ [][NextPipeline]_vars

(***************************************************************************)
(* Claims about the corpus builder                                         *)
(***************************************************************************)
\* C3: whatever the number M >= 2 of records that share a name (their urls
\* distinct), the index keys of the table clean_df returns are pairwise
\* distinct.
C3_CleanKeysDistinct ==
    pc # "start" =>
        \A i, j \in 1..Len(df_clean) : i # j => df_clean[i].idx # df_clean[j].idx

\* C5: the corpus table of the main block has one row per record of the
\* url-deduplicated table, in that table's order.
C5_CorpusRowsMatchDeduplicated ==
    pc \in {"corpus", "hike"} =>
        LET dedup == drop_duplicates(df_mongo)
        IN  /\ Len(df_corpus) = Len(dedup)
            /\ \A i \in 1..Len(dedup) : df_corpus[i].url = dedup[i].url

\* the reviews cells get_review_corpus was given are None, NaN or containers
\* of well-formed review lists
OnlyNullOrWellFormed ==
    \A i \in 1..Len(df_mongo) :
        \/ df_mongo[i].reviews.kind \in {"None", "NaN"}
        \/ \A k \in 1..Len(df_mongo[i].reviews.items) :
              LET v == df_mongo[i].reviews.items[k]
              IN  v.list => Len(v.elems) >= 3

\* C8: get_review_corpus does not raise on a None or NaN reviews cell; the
\* record contributes the empty document and keeps its name in rows, so
\* len(rows) = len(docs) = len(data).
C8_NullReviewsGiveEmptyDocument ==
    (pc \in {"reviews", "raised"} /\ OnlyNullOrWellFormed) =>
        /\ pc = "reviews"
        /\ Len(rows) = Len(df_mongo)
        /\ Len(docs) = Len(df_mongo)
        /\ \A i \in 1..Len(df_mongo) :
              /\ rows[i] = df_mongo[i].idx
              /\ df_mongo[i].reviews.kind \in {"None", "NaN"} => docs[i] = <<>>

(***************************************************************************)
(* Topic table and feature fusion (lines 238-244), for any hike table and  *)
(* any corpus the two steps may be handed                                  *)
(***************************************************************************)
\* loadings get_nmf may return, in thousandths: 0.000, 0.015, 0.126
Loadings == {0, 15, 126}

HikeRows ==
    [idx : Names, url : {"u"}, location : {"Boulder"}, number_ratings : {7},
     elevation : {120}, difficulty : {"easy", "hard"},
     hike_type : {"Loop", "Out & Back"}]

InitFusion ==
    \E left \in SeqsUpTo(HikeRows, MaxFusionRows),
       labels \in SeqsUpTo(Names, MaxFusionRows) :
        \E w \in [1..Len(labels) -> [1..NTopics -> Loadings]] :
            /\ pc = "hike"
            /\ df_hike = left
            /\ df_corpus = [i \in 1..Len(labels) |-> [idx |-> labels[i], all |-> <<>>]]
            /\ W = w
            /\ W_df = <<>> /\ df_merged = <<>>
            /\ df_mongo = <<>> /\ df_clean = <<>> /\ hike_url_dict = <<>>
            /\ rows = <<>> /\ docs = <<>> /\ df_reviews = <<>>
            /\ X = <<>> /\ hikes = <<>> /\ similarity_df = <<>>
            /\ order = <<>> /\ recs = <<>> /\ query = [op |-> "none"]
            /\ outcome = "ok"

\* line 238
NmfTopicModeling ==
    /\ pc = "hike"
    /\ W_df' = nmf_topic_modeling(df_corpus, W)
    /\ pc' = "topics"
    /\ UNCHANGED <<pipelineVars, hike_url_dict, outcome, df_hike, W, df_merged>>
    /\ UNCHANGED <<engineVars, queryVars>>

\* line 240
Merge ==
    /\ pc = "topics"
    /\ df_merged' = Fusion(df_hike, W_df)
    /\ pc' = "merged"
    /\ UNCHANGED <<pipelineVars, hike_url_dict, outcome, df_hike, W, W_df>>
    /\ UNCHANGED <<engineVars, queryVars>>

\* lines 241-244
GetDummies ==
    /\ pc = "merged"
    /\ df_merged' = get_dummies(df_merged)
    /\ pc' = "fused"
    /\ UNCHANGED <<pipelineVars, hike_url_dict, outcome, df_hike, W, W_df>>
    /\ UNCHANGED <<engineVars, queryVars>>

NextFusion ==
    \/ NmfTopicModeling
    \/ Merge
    \/ GetDummies

SpecFusion == InitFusion /\ [][NextFusion]_vars

Labels(df) == {df[i].idx : i \in 1..Len(df)}

C10_FusedLoadingsUnrounded ==
    pc \in {"merged", "fused"} =>
        \A r \in 1..Len(df_merged) :
            \E i \in 1..Len(W) :
                /\ df_corpus[i].idx = df_merged[r].idx
                /\ df_merged[r].topics = W[i]

(***************************************************************************)
(* Recommendation queries against a loaded engine                          *)
(***************************************************************************)
TrailNames == <<"h1", "h2", "h3", "h4", "h5", "h6">>
Unknown == "zz"
\* rows of the scaled matrix: a zero row, and rows whose cosines are
\* positive, zero and negative
FeatureVectors == {<<0, 0>>, <<1, 0>>, <<1, 1>>, <<-1, 1>>}

InitRec ==
    \E x \in [1..NTrails -> FeatureVectors] :
        /\ pc = "serving"
        /\ X = x
        /\ hikes = SubSeq(TrailNames, 1, NTrails)
        /\ similarity_df = make_sim_matrix(x)
        /\ hike_url_dict = [name \in Range(SubSeq(TrailNames, 1, NTrails)) |->
                               "url_" \o name]
        /\ df_mongo = <<>> /\ df_clean = <<>>
        /\ rows = <<>> /\ docs = <<>> /\ df_reviews = <<>> /\ df_corpus = <<>>
        /\ df_hike = <<>> /\ W = <<>> /\ W_df = <<>> /\ df_merged = <<>>
        /\ order = <<>> /\ recs = <<>> /\ query = [op |-> "none"]
        /\ outcome = "ok"

\* lines 155-163; similarity_df.loc raises KeyError for a label it lacks
GetHikeRecommendations(baseline_hike, n_hikes) ==
    /\ pc = "serving"
    /\ query' = [op |-> "seed", baseline_hike |-> baseline_hike, n |-> n_hikes]
    /\ IF baseline_hike \notin Range(hikes)
       THEN /\ outcome' = "KeyError"
            /\ order' = <<>>
            /\ recs' = <<>>
       ELSE \E p \in argsort(similarity_df[PositionOf(hikes, baseline_hike)]) :
               /\ order' = Reversed(p)
               /\ recs' = Printed(hikes, hike_url_dict,
                                  SeedSlice(Reversed(p), n_hikes))
               /\ outcome' = "ok"
    /\ pc' = "answered"
    /\ UNCHANGED <<pipelineVars, fusionVars, engineVars, hike_url_dict>>

\* lines 178-191
GetUserRecommendation(items, n) ==
    /\ pc = "serving"
    /\ LET prof == get_user_profile(X, hikes, items)
       IN  IF prof.raised # "ok"
           THEN /\ outcome' = prof.raised
                /\ query' = [op |-> "profile", items |-> items, n |-> n,
                             user_prof |-> <<>>]
                /\ order' = <<>>
                /\ recs' = <<>>
           ELSE \E p \in argsort(user_similarity(X, prof.user_profile)) :
                   /\ order' = Reversed(p)
                   /\ recs' = Printed(hikes, hike_url_dict,
                                      UserSlice(Reversed(p), items, n))
                   /\ query' = [op |-> "profile", items |-> items, n |-> n,
                                user_prof |-> prof.user_profile]
                   /\ outcome' = "ok"
    /\ pc' = "answered"
    /\ UNCHANGED <<pipelineVars, fusionVars, engineVars, hike_url_dict>>

\* the query function returns (or its exception is caught by the caller):
\* its locals are gone, the engine is ready for the next query
Return ==
    /\ pc = "answered"
    /\ pc' = "serving"
    /\ order' = <<>>
    /\ recs' = <<>>
    /\ query' = [op |-> "none"]
    /\ outcome' = "ok"
    /\ UNCHANGED <<pipelineVars, fusionVars, engineVars, hike_url_dict>>

QueryNames == Range(SubSeq(TrailNames, 1, NTrails)) \cup {Unknown}

NextRec ==
    \/ \E name \in QueryNames, n \in 1..MaxN : GetHikeRecommendations(name, n)
    \/ \E items \in SeqsUpTo(QueryNames, MaxItems), n \in 1..MaxN :
          GetUserRecommendation(items, n)
    \/ Return

SpecRec == InitRec /\ [][NextRec]_vars

(***************************************************************************)
(* Claims about the similarity engine                                      *)
(***************************************************************************)
RecNames == {recs[k][1] : k \in 1..Len(recs)}

\* similarity of trail i to what the last query ranked against
QuerySim(i) ==
    IF query.op = "seed"
    THEN similarity_df[PositionOf(hikes, query.baseline_hike)][i]
    ELSE cosine_similarity(X[i], query.user_prof)

\* C1: the list get_hike_recommendations(seed, N) produces never contains
\* the seed itself.
C1_SeedNotRecommended ==
    (query.op = "seed" /\ outcome = "ok") => query.baseline_hike \notin RecNames

\* C2: the list get_user_recommendation(items, n) produces contains no trail
\* that is a member of items.
C2_LikedNotRecommended ==
    (query.op = "profile" /\ outcome = "ok") => RecNames \cap Range(query.items) = {}

\* position of trail name in the descending ranking of the last query
RankOf(name) == CHOOSE a \in 1..Len(order) : hikes[order[a]] = name

LikedRankFirst ==
    \A name \in Range(query.items) : RankOf(name) <= Len(query.items)

\* C2 (amended): when every liked trail ranks within the first len(items)
\* positions of the descending ranking, the list get_user_recommendation
\* produces contains no liked trail.
C2_LikedNotRecommendedWhenRankedFirst ==
    (query.op = "profile" /\ outcome = "ok" /\ LikedRankFirst) =>
        RecNames \cap Range(query.items) = {}

C2_Witness ==
    /\ query.op = "profile" /\ outcome = "ok" /\ LikedRankFirst
    /\ Len(query.items) = 2 /\ query.items[1] # query.items[2]
    /\ recs # <<>>

\* the names of a query
NamesOf(q) ==
    IF q.op = "seed" THEN {q.baseline_hike}
    ELSE IF q.op = "profile" THEN Range(q.items)
    ELSE {}

\* C4: a query that names a trail absent from the index fails with an
\* unknown-entity error, not with an out-of-range index error, and leaves
\* the feature matrix, the similarity matrix and the trail index unchanged.
C4_UnknownEntityError ==
    [][(NamesOf(query') \ Range(hikes) # {}) =>
          /\ outcome' \notin {"ok", "IndexError"}
          /\ UNCHANGED <<X, similarity_df, hikes, hike_url_dict>>]_vars

\* C7: of two trails equally similar to the seed or to the profile vector,
\* the one with the smaller original index position comes first in the
\* descending ranking.
C7_TiesByOriginalIndex ==
    (query.op # "none" /\ outcome = "ok") =>
        \A a, b \in 1..Len(order) :
            (a < b /\ SimEq(QuerySim(order[a]), QuerySim(order[b])))
                => order[a] < order[b]

Count(items, name) == Cardinality({k \in 1..Len(items) : items[k] = name})

\* C9: the profile vector is the elementwise sum of the scaled vectors of
\* the liked trails, each as often as it is listed, and has a feature
\* vector's dimensionality; the ranking holds every trail once, in
\* descending cosine similarity to the profile vector; the result is the
\* entries at positions len(items) .. len(items)+n-1 of that ranking.
C9_ProfileRanking ==
    (query.op = "profile" /\ outcome = "ok") =>
        LET items == query.items
            prof == query.user_prof
            N == Len(hikes)
            m == IF Len(items) >= N THEN 0 ELSE Min(query.n, N - Len(items))
        IN  /\ Len(prof) = Len(X[1])
            /\ \A c \in 1..Len(prof) :
                  prof[c] = SumTo([t \in 1..N |-> Count(items, hikes[t]) * X[t][c]], N)
            /\ Len(order) = N
            /\ Range(order) = 1..N
            /\ \A a \in 1..(N - 1) :
                  ~SimLess(cosine_similarity(X[order[a]], prof),
                           cosine_similarity(X[order[a + 1]], prof))
            /\ Len(recs) = m
            /\ \A k \in 1..m :
                  recs[k] = <<hikes[order[Len(items) + k]],
                              hike_url_dict[hikes[order[Len(items) + k]]]>>

C9_Witness ==
    /\ query.op = "profile" /\ outcome = "ok"
    /\ Len(query.items) = 2 /\ query.items[1] = query.items[2]
    /\ \E c \in 1..Len(query.user_prof) : query.user_prof[c] # 0
    /\ Len(recs) = 1
    /\ \E a \in 1..(Len(order) - 1) :
          SimLess(QuerySim(order[a + 1]), QuerySim(order[a]))

====
